---- MODULE Spec2Model ----
(***************************************************************************)
(* Model of testing.py: the Bovada live-event poller.                      *)
(*                                                                         *)
(* JSON values are tagged records.  Strings are TLA+ strings, so that      *)
(* upper/lower/strip/substring and f-string formatting are computed        *)
(* character by character.  A JSON number is either an integer or a        *)
(* float with one decimal digit, held in tenths (172.5 is 1725 tenths).    *)
(* A JSON object is a function from its keys to values; key order is not   *)
(* kept, so an object with more than one key is never formatted.           *)
(*                                                                         *)
(* A Python call either returns a value or raises: Ret(v) / Raise(exc).    *)
(***************************************************************************)
EXTENDS Integers, Sequences, FiniteSets, TLC

VARIABLES
    pc,           \* position of the running code
    payload,      \* main: payload returned by fetch_json / flatten_events argument
    events,       \* main: result of flatten_events(payload)
    live_events,  \* main: [e for e in events if is_live(e)]
    idx,          \* main: number of live events already rendered
    screen,       \* main: what the last completed cycle printed
    fetched,      \* whether a fetch_json call has been started
    slept,        \* seconds of completed time.sleep since the last fetch started
    lastCycle,    \* how the cycle that led to the current sleep ended
    event,        \* extractor harness: the event under inspection
    r_live,       \* result of is_live(event)
    r_matchup,    \* result of extract_matchup(event)
    r_score,      \* result of extract_score(event)
    r_total       \* result of extract_main_total(event)

vars == <<pc, payload, events, live_events, idx, screen, fetched, slept,
          lastCycle, event, r_live, r_matchup, r_score, r_total>>

-----------------------------------------------------------------------------
(* JSON values as Python sees them after r.json()                          *)

Null == [k |-> "null"]
JBool(b) == [k |-> "bool", b |-> b]
JInt(n) == [k |-> "int", n |-> n]
JFloat(t) == [k |-> "float", tenths |-> t]
JStr(s) == [k |-> "str", s |-> s]
JList(items) == [k |-> "list", items |-> items]
JDict(m) == [k |-> "dict", m |-> m]

EmptyDict == JDict(<<>>)
Dict1(key, v) == JDict([x \in {key} |-> v])

IsNone(v) == v.k = "null"
IsDict(v) == v.k = "dict"
IsList(v) == v.k = "list"
IsStr(v) == v.k = "str"

(* Python truth value of a JSON value, as used by `or`, `and`, `if x` *)
Truthy(v) ==
    CASE v.k = "null" -> FALSE
      [] v.k = "bool" -> v.b
      [] v.k = "int" -> v.n # 0
      [] v.k = "float" -> v.tenths # 0
      [] v.k = "str" -> v.s # ""
      [] v.k = "list" -> Len(v.items) > 0
      [] v.k = "dict" -> DOMAIN v.m # {}

(* a or b *)
PyOr(a, b) == IF Truthy(a) THEN a ELSE b

(* d.get(key) on a dict d *)
Get(d, key) == IF key \in DOMAIN d.m THEN d.m[key] ELSE Null

(* outcome of a call *)
Ret(v) == [r |-> "ret", v |-> v]
Raise(exc) == [r |-> "raise", exc |-> exc]
Raised(res) == res.r = "raise"

-----------------------------------------------------------------------------
(* str methods                                                             *)

LowerAlpha == "abcdefghijklmnopqrstuvwxyz"
UpperAlpha == "ABCDEFGHIJKLMNOPQRSTUVWXYZ"
Whitespace == {" ", "\t", "\n"}

CharAt(s, i) == SubSeq(s, i, i)
Rest(s) == SubSeq(s, 2, Len(s))

MapChar(from, to, c) ==
    IF \E i \in 1..Len(from) : CharAt(from, i) = c
    THEN CharAt(to, CHOOSE i \in 1..Len(from) : CharAt(from, i) = c)
    ELSE c

RECURSIVE MapStr(_, _, _)
MapStr(from, to, s) ==
    IF s = "" THEN ""
    ELSE MapChar(from, to, CharAt(s, 1)) \o MapStr(from, to, Rest(s))

upper(s) == MapStr(LowerAlpha, UpperAlpha, s)
lower(s) == MapStr(UpperAlpha, LowerAlpha, s)

RECURSIVE lstrip(_)
lstrip(s) ==
    IF s # "" /\ CharAt(s, 1) \in Whitespace THEN lstrip(Rest(s)) ELSE s

RECURSIVE rstrip(_)
rstrip(s) ==
    IF s # "" /\ CharAt(s, Len(s)) \in Whitespace
    THEN rstrip(SubSeq(s, 1, Len(s) - 1)) ELSE s

strip(s) == rstrip(lstrip(s))

(* sub in s *)
Contains(sub, s) ==
    \E i \in 1..(Len(s) - Len(sub) + 1) : SubSeq(s, i, i + Len(sub) - 1) = sub

-----------------------------------------------------------------------------
(* str(v) as used by f-string fields, and repr(v) inside containers       *)

Abs(n) == IF n < 0 THEN -n ELSE n

FloatStr(t) ==
    (IF t < 0 THEN "-" ELSE "") \o ToString(Abs(t) \div 10) \o "."
        \o ToString(Abs(t) % 10)

RECURSIVE PyRepr(_)
RECURSIVE JoinRepr(_)
JoinRepr(items) ==
    IF Len(items) = 0 THEN ""
    ELSE IF Len(items) = 1 THEN PyRepr(items[1])
    ELSE PyRepr(items[1]) \o ", " \o JoinRepr(Tail(items))

PyRepr(v) ==
    CASE v.k = "null" -> "None"
      [] v.k = "bool" -> IF v.b THEN "True" ELSE "False"
      [] v.k = "int" -> ToString(v.n)
      [] v.k = "float" -> FloatStr(v.tenths)
      [] v.k = "str" -> "'" \o v.s \o "'"
      [] v.k = "list" -> "[" \o JoinRepr(v.items) \o "]"
      [] v.k = "dict" /\ DOMAIN v.m = {} -> "{}"
      [] v.k = "dict" /\ Cardinality(DOMAIN v.m) = 1 ->
            LET key == CHOOSE x \in DOMAIN v.m : TRUE
            IN "{'" \o key \o "': " \o PyRepr(v.m[key]) \o "}"

PyStr(v) == IF v.k = "str" THEN v.s ELSE PyRepr(v)

-----------------------------------------------------------------------------
(* safe_get(d, *keys)                                                      *)

RECURSIVE safe_get(_, _)
safe_get(cur, keys) ==
    IF Len(keys) = 0 THEN cur
    ELSE IF ~IsDict(cur) \/ Head(keys) \notin DOMAIN cur.m THEN Null
    ELSE safe_get(cur.m[Head(keys)], Tail(keys))

-----------------------------------------------------------------------------
(* is_live(event)                                                          *)

is_live(e) ==
    LET s0 == PyOr(PyOr(Get(e, "status"), Get(e, "state")), JStr(""))
    IN IF ~IsStr(s0) THEN Raise("AttributeError")   \* no .upper() on s0
       ELSE LET s == upper(s0.s)
                live_obj == PyOr(PyOr(Get(e, "liveGame"), Get(e, "liveStatus")),
                                 Get(e, "liveData"))
            IN IF Contains("LIVE", s) \/ Contains("IN_PROGRESS", s)
               THEN Ret(JBool(TRUE))
               ELSE IF Get(e, "live") = JBool(TRUE) THEN Ret(JBool(TRUE))
               ELSE IF IsDict(live_obj) THEN Ret(JBool(TRUE))
               ELSE Ret(JBool(FALSE))

-----------------------------------------------------------------------------
(* extract_score(event)                                                    *)

ScoreFmt(first, second) == JStr(PyStr(first) \o "-" \o PyStr(second))

(* Pattern A, lines 83-96: Null when the live mapping yields no score *)
live_score(live) ==
    LET score == Get(live, "score")
        nhome == PyOr(Get(score, "home"), Get(score, "homeScore"))
        naway == PyOr(Get(score, "away"), Get(score, "awayScore"))
        home == Get(live, "homeScore")
        away == Get(live, "awayScore")
    IN IF IsDict(score) /\ ~IsNone(nhome) /\ ~IsNone(naway)
       THEN ScoreFmt(naway, nhome)
       ELSE IF ~IsNone(home) /\ ~IsNone(away) THEN ScoreFmt(away, home)
       ELSE Null

(* lines 102-105: the scores list built from the mapping-typed competitors *)
RECURSIVE collect_scores(_)
collect_scores(cs) ==
    IF Len(cs) = 0 THEN <<>>
    ELSE (IF IsDict(Head(cs))
          THEN <<PyOr(Get(Head(cs), "score"), Get(Head(cs), "points"))>>
          ELSE <<>>) \o collect_scores(Tail(cs))

(* Pattern B, lines 99-108 *)
competitor_score(e) ==
    LET competitors == Get(e, "competitors")
    IN IF IsList(competitors) /\ Len(competitors.items) >= 2
       THEN LET scores == collect_scores(competitors.items)
            IN IF \A i \in 1..Len(scores) : ~IsNone(scores[i])
               THEN IF Len(scores) < 2 THEN Raise("IndexError")
                    ELSE Ret(ScoreFmt(scores[1], scores[2]))
               ELSE Ret(Null)
       ELSE Ret(Null)

extract_score(e) ==
    LET live == PyOr(PyOr(Get(e, "liveGame"), Get(e, "liveData")),
                     Get(e, "liveStatus"))
        a == IF IsDict(live) THEN live_score(live) ELSE Null
    IN IF ~IsNone(a) THEN Ret(a) ELSE competitor_score(e)

-----------------------------------------------------------------------------
(* extract_matchup(event)                                                  *)

extract_matchup(e) ==
    LET comps == Get(e, "competitors")
        two == IsList(comps) /\ Len(comps.items) >= 2
        a == IF two /\ IsDict(comps.items[1])
             THEN Get(comps.items[1], "name") ELSE Null
        b == IF two /\ IsDict(comps.items[2])
             THEN Get(comps.items[2], "name") ELSE Null
        desc == PyOr(Get(e, "description"), Get(e, "shortDescription"))
    IN IF two /\ Truthy(a) /\ Truthy(b)
       THEN Ret(JStr(PyStr(a) \o " vs " \o PyStr(b)))
       ELSE IF IsStr(desc) /\ strip(desc.s) # "" THEN Ret(JStr(strip(desc.s)))
       ELSE Ret(JStr("Unknown matchup"))

-----------------------------------------------------------------------------
(* extract_main_total(event)                                               *)

(* sort key of line 143 *)
group_key(g) ==
    IF IsDict(g) /\ Get(g, "description") = JStr("Game Lines") THEN 0 ELSE 1

(* sorted(display_groups, key=...): a stable sort, here by insertion *)
(* a sort that is not stable: x goes in front of the elements of equal key *)
RECURSIVE insert_before_ties(_, _)
insert_before_ties(x, s) ==
    IF Len(s) = 0 THEN <<x>>
    ELSE IF group_key(x) <= group_key(Head(s)) THEN <<x>> \o s
    ELSE <<Head(s)>> \o insert_before_ties(x, Tail(s))

RECURSIVE insert_sorted(_, _)
insert_sorted(x, s) ==
    IF Len(s) = 0 THEN <<x>>
    ELSE IF group_key(x) < group_key(Head(s)) THEN <<x>> \o s
    ELSE <<Head(s)>> \o insert_sorted(x, Tail(s))

RECURSIVE sorted(_)
sorted(s) ==
    IF Len(s) = 0 THEN <<>>
    ELSE insert_sorted(s[Len(s)], sorted(SubSeq(s, 1, Len(s) - 1)))

(* the loop body with a first-wins line: a line already seen is kept *)
outcome_step_first_line(st, o) ==
    IF st.raised \/ ~IsDict(o) THEN st
    ELSE LET d0 == PyOr(Get(o, "description"), JStr(""))
         IN IF ~IsStr(d0) THEN [st EXCEPT !.raised = TRUE]
            ELSE LET odesc == lower(strip(d0.s))
                     pts == PyOr(PyOr(Get(o, "handicap"), Get(o, "points")),
                                 safe_get(o, <<"price", "handicap">>))
                     price_am == safe_get(o, <<"price", "american">>)
                 IN [raised |-> FALSE,
                     line |-> IF IsNone(st.line) THEN pts ELSE st.line,
                     over |-> IF Contains("over", odesc) THEN price_am
                              ELSE st.over,
                     under |-> IF ~Contains("over", odesc)
                                  /\ Contains("under", odesc)
                               THEN price_am ELSE st.under]

(* one pass of the loop body of lines 172-183 over the state (line, over, under) *)
outcome_step(st, o) ==
    IF st.raised \/ ~IsDict(o) THEN st
    ELSE LET d0 == PyOr(Get(o, "description"), JStr(""))
         IN IF ~IsStr(d0) THEN [st EXCEPT !.raised = TRUE]   \* no .strip()
            ELSE LET odesc == lower(strip(d0.s))
                     pts == PyOr(PyOr(Get(o, "handicap"), Get(o, "points")),
                                 safe_get(o, <<"price", "handicap">>))
                     price_am == safe_get(o, <<"price", "american">>)
                 IN [raised |-> FALSE,
                     line |-> IF ~IsNone(pts) THEN pts ELSE st.line,
                     over |-> IF Contains("over", odesc) THEN price_am
                              ELSE st.over,
                     under |-> IF ~Contains("over", odesc)
                                  /\ Contains("under", odesc)
                               THEN price_am ELSE st.under]

RECURSIVE scan_outcomes(_, _)
scan_outcomes(st, os) ==
    IF Len(os) = 0 THEN st
    ELSE scan_outcomes(outcome_step(st, Head(os)), Tail(os))

Continue == [r |-> "continue"]

TotalFmt(line, over, under) ==
    IF ~IsNone(over) /\ ~IsNone(under)
    THEN JStr("O/U " \o PyStr(line) \o " (O " \o PyStr(over) \o ", U "
                \o PyStr(under) \o ")")
    ELSE JStr("O/U " \o PyStr(line))

(* the body of the market loop, lines 155-193: Continue, Raise or Ret *)
market_body(m) ==
    IF ~IsDict(m) THEN Continue
    ELSE LET d0 == PyOr(Get(m, "description"), JStr(""))
         IN IF ~IsStr(d0) THEN Raise("AttributeError")
            ELSE IF lower(strip(d0.s)) # "total" THEN Continue
            ELSE LET outcomes == Get(m, "outcomes")
                 IN IF ~IsList(outcomes) \/ Len(outcomes.items) < 2
                    THEN Continue
                    ELSE LET st == scan_outcomes(
                                     [raised |-> FALSE, line |-> Null,
                                      over |-> Null, under |-> Null],
                                     outcomes.items)
                             line == IF IsNone(st.line)
                                     THEN PyOr(Get(m, "handicap"),
                                               Get(m, "points"))
                                     ELSE st.line
                         IN IF st.raised THEN Raise("AttributeError")
                            ELSE IF ~IsNone(line)
                            THEN Ret(TotalFmt(line, st.over, st.under))
                            ELSE Continue

(* a market loop without the early return: the last market that yields wins *)
RECURSIVE scan_markets_last_match(_)
scan_markets_last_match(ms) ==
    IF Len(ms) = 0 THEN Continue
    ELSE IF scan_markets_last_match(Tail(ms)) # Continue
    THEN scan_markets_last_match(Tail(ms))
    ELSE market_body(Head(ms))

(* for m in markets, lines 154-193 *)
RECURSIVE scan_markets(_)
scan_markets(ms) ==
    IF Len(ms) = 0 THEN Continue
    ELSE IF market_body(Head(ms)) # Continue THEN market_body(Head(ms))
    ELSE scan_markets(Tail(ms))

(* the body of the group loop, lines 147-193 *)
group_body(g) ==
    IF ~IsDict(g) THEN Continue
    ELSE IF ~IsList(Get(g, "markets")) THEN Continue
    ELSE scan_markets(Get(g, "markets").items)

(* for g in groups, lines 146-193 *)
RECURSIVE scan_groups(_)
scan_groups(gs) ==
    IF Len(gs) = 0 THEN Continue
    ELSE IF group_body(Head(gs)) # Continue THEN group_body(Head(gs))
    ELSE scan_groups(Tail(gs))

extract_main_total(e) ==
    LET display_groups == Get(e, "displayGroups")
    IN IF ~IsList(display_groups) THEN Ret(Null)
       ELSE LET res == scan_groups(sorted(display_groups.items))
            IN IF res = Continue THEN Ret(Null) ELSE res

-----------------------------------------------------------------------------
(* flatten_events(payload)                                                 *)

(* the inner loop without the isinstance(e, dict) test *)
every_element(evs) == evs

(* lines 209-211 and 215: the mapping-typed elements of evs, in order *)
RECURSIVE dict_events(_)
dict_events(evs) ==
    IF Len(evs) = 0 THEN <<>>
    ELSE (IF IsDict(Head(evs)) THEN <<Head(evs)>> ELSE <<>>)
         \o dict_events(Tail(evs))

(* lines 205-211 *)
RECURSIVE flatten_items(_)
flatten_items(items) ==
    IF Len(items) = 0 THEN <<>>
    ELSE (IF IsDict(Head(items)) /\ IsList(Get(Head(items), "events"))
          THEN dict_events(Get(Head(items), "events").items)
          ELSE <<>>) \o flatten_items(Tail(items))

flatten_events(p) ==
    IF IsList(p) THEN flatten_items(p.items)
    ELSE IF IsDict(p) /\ IsList(Get(p, "events"))
    THEN dict_events(Get(p, "events").items)
    ELSE <<>>

-----------------------------------------------------------------------------
(* Inputs: bounded families of events and payloads                         *)

MaxCompetitors == 3
MaxOutcomes == 3
MaxGroups == 2
MaxInner == 2
MaxOuter == 2

SeqsUpTo(S, n) == UNION {[1..len -> S] : len \in 0..n}

Absent == [k |-> "absent"]

(* the JSON object with the fields of rec that are not Absent *)
Obj(rec) == JDict([x \in {y \in DOMAIN rec : rec[y] # Absent} |-> rec[x]])

Price(am) == Dict1("american", JInt(am))

(* events that vary the liveness signals *)
LiveFam ==
    {Obj([status |-> a, state |-> b, live |-> c, liveGame |-> d,
          liveStatus |-> f, liveData |-> g]) :
        a \in {Absent, JStr("Live now"), JStr("scheduled"), JStr(""), JInt(5)},
        b \in {Absent, JStr("IN_PROGRESS"), JStr("pre"), JList(<<JInt(1)>>)},
        c \in {Absent, JBool(TRUE), JInt(1)},
        d \in {Absent, EmptyDict, Dict1("period", JInt(2)), JStr("x")},
        f \in {Absent, EmptyDict, Dict1("clock", JStr("10:00"))},
        g \in {Absent, EmptyDict, Dict1("awayScore", JInt(3))}}

(* live mappings that vary the nested and the flat score fields *)
NestedScores ==
    {Obj([home |-> a, homeScore |-> b, away |-> c, awayScore |-> d]) :
        a \in {Absent, JInt(0), JInt(21)}, b \in {Absent, JInt(7)},
        c \in {Absent, JInt(14)}, d \in {Absent, JInt(3)}}

LiveObjs ==
    {Obj([score |-> a, homeScore |-> b, awayScore |-> c]) :
        a \in NestedScores \cup {Absent, JInt(3)},
        b \in {Absent, Null, JInt(0), JInt(55)},
        c \in {Absent, Null, JInt(0), JInt(48)}}

TwoTeams ==
    JList(<<Obj([name |-> JStr("A"), score |-> JInt(10)]),
            Obj([name |-> JStr("B"), score |-> JInt(12)])>>)

LiveScoreFam ==
    {Obj([liveGame |-> a, liveData |-> b, competitors |-> c]) :
        a \in LiveObjs, b \in {Absent, Dict1("homeScore", JInt(1))},
        c \in {Absent, TwoTeams}}

(* entries of a competitors sequence *)
CompEntries ==
    {Obj([name |-> JStr("A"), score |-> JInt(10)]),
     Obj([name |-> JStr("B"), score |-> JInt(12)]),
     Obj([name |-> JStr(""), score |-> JInt(0)]),
     Obj([name |-> JStr("C"), points |-> JInt(7)]),
     Obj([name |-> JInt(5), score |-> JInt(0), points |-> JInt(0)]),
     Obj([name |-> JStr("D")]),
     JStr("x")}

CompetitorFam ==
    {Obj([competitors |-> JList(c), description |-> d]) :
        c \in SeqsUpTo(CompEntries, MaxCompetitors),
        d \in {Absent, JStr("Team X at Team Y")}}

DescFam ==
    {Obj([competitors |-> c, description |-> d, shortDescription |-> sd]) :
        c \in {Absent, Null, JList(<<Obj([name |-> JStr("A")])>>), TwoTeams},
        d \in {Absent, Null, JStr(""), JStr("  "), JStr("Team X at Team Y"),
               JStr(" Duke @ UNC\n"), JInt(5)},
        sd \in {Absent, JStr("X@Y"), JStr(" "), JList(<<>>)}}

(* outcomes of a market *)
OutcomeOpts ==
    {Obj([description |-> JStr("Over"), handicap |-> JFloat(1725),
          price |-> Price(-110)]),
     Obj([description |-> JStr("Under"), handicap |-> JFloat(1725),
          price |-> Price(-110)]),
     Obj([description |-> JStr(" OVER 170 "), points |-> JInt(170),
          price |-> Price(105)]),
     Obj([description |-> JStr("Under"),
          price |-> Dict1("handicap", JInt(168))]),
     Obj([description |-> JStr("Over")]),
     Obj([description |-> JStr("Push"), handicap |-> JInt(0)]),
     Obj([description |-> JStr("Over/Under"), handicap |-> JInt(171),
          price |-> Price(100)]),
     Obj([description |-> JInt(5), handicap |-> JInt(160)])}

(* outcomes that carry no line, and an entry that is not a mapping *)
NoLineOutcomes ==
    {Obj([description |-> JStr("Over"), price |-> Price(-105)]),
     Obj([description |-> JStr("under"), handicap |-> JInt(0),
          price |-> Price(-115)]),
     JStr("x")}

TotalMarketEvent(os, h, p) ==
    Obj([displayGroups |-> JList(<<Obj([description |-> JStr("Game Lines"),
        markets |-> JList(<<Obj([description |-> JStr("Total"),
            outcomes |-> JList(os), handicap |-> h, points |-> p])>>)])>>)])

MarketFam ==
    {TotalMarketEvent(os, Absent, Absent) : os \in SeqsUpTo(OutcomeOpts, MaxOutcomes)}
    \cup {TotalMarketEvent(os, hp[1], hp[2]) :
            os \in SeqsUpTo(NoLineOutcomes, MaxOutcomes),
            hp \in {<<Absent, Absent>>, <<JInt(150), Absent>>, <<JInt(0), Absent>>,
                    <<JInt(0), JInt(0)>>, <<Absent, JFloat(1495)>>}}
    \cup {TotalMarketEvent(<<o1, JStr("x"), o2>>, Absent, Absent) :
            o1 \in OutcomeOpts, o2 \in OutcomeOpts}

(* markets that differ in how the market loop treats them *)
Over(line) == Obj([description |-> JStr("Over"), handicap |-> line])
Under(line) == Obj([description |-> JStr("Under"), handicap |-> line])

TotalA ==
    Obj([description |-> JStr("Total"),
         outcomes |-> JList(<<Over(JInt(170)), Under(JInt(170))>>)])
TotalB ==
    Obj([description |-> JStr(" total "),
         outcomes |-> JList(<<Over(JFloat(1655)), Under(JFloat(1655))>>)])
TotalOneOutcome ==
    Obj([description |-> JStr("Total"), handicap |-> JInt(150),
         outcomes |-> JList(<<Over(JInt(150))>>)])
TotalNoLine ==
    Obj([description |-> JStr("Total"),
         outcomes |-> JList(<<Over(Absent), Under(Absent)>>)])
Spread ==
    Obj([description |-> JStr("Point Spread"),
         outcomes |-> JList(<<Over(JInt(-3)), Under(JInt(3))>>)])
BadMarket == Obj([description |-> JInt(5)])

MarketLists ==
    {<<>>, <<TotalA>>, <<TotalA, TotalB>>, <<TotalOneOutcome, TotalA>>,
     <<TotalNoLine, TotalB>>, <<TotalOneOutcome, TotalB, TotalA>>}

GroupOpts ==
    {Obj([description |-> d, markets |-> JList(ms)]) :
        d \in {JStr("Game Lines"), JStr("Alternate Lines")}, ms \in MarketLists}
    \cup {JStr("x"), Obj([description |-> JStr("Game Lines")])}

OrderFam ==
    {Obj([displayGroups |-> JList(gs)]) : gs \in SeqsUpTo(GroupOpts, MaxGroups)}

(* groups with a market that raises or is not a total, and odd shapes *)
OddGroups ==
    {Obj([description |-> d, markets |-> JList(ms)]) :
        d \in {JStr("Game Lines"), JStr("game lines"), Absent},
        ms \in {<<BadMarket, TotalA>>, <<TotalB, BadMarket>>, <<Spread>>,
                <<Spread, TotalB>>, <<JInt(1), TotalA>>}}

OddFam ==
    {Obj([displayGroups |-> JList(<<g1, g2>>)]) : g1 \in OddGroups, g2 \in OddGroups}
    \cup {Obj([displayGroups |-> d]) : d \in {Absent, Null, JStr("x"), EmptyDict}}

EventInputs ==
    LiveFam \cup LiveScoreFam \cup CompetitorFam \cup DescFam \cup MarketFam
        \cup OrderFam \cup OddFam

-----------------------------------------------------------------------------
(* The extractors applied to one event, in the order main calls them       *)
(* (is_live at line 231, then lines 242-244)                               *)

Unset == [r |-> "unset"]

LoopIdle ==
    /\ payload = Null
    /\ events = <<>>
    /\ live_events = <<>>
    /\ idx = 0
    /\ screen = <<>>
    /\ fetched = FALSE
    /\ slept = 0
    /\ lastCycle = "none"

loopVars == <<payload, events, live_events, idx, screen, fetched, slept, lastCycle>>

ExtractInit ==
    /\ pc = "is_live"
    /\ event \in EventInputs
    /\ r_live = Unset
    /\ r_matchup = Unset
    /\ r_score = Unset
    /\ r_total = Unset
    /\ LoopIdle

CallIsLive ==
    /\ pc = "is_live"
    /\ r_live' = is_live(event)
    /\ pc' = "extract_matchup"
    /\ UNCHANGED <<event, r_matchup, r_score, r_total, loopVars>>

CallExtractMatchup ==
    /\ pc = "extract_matchup"
    /\ r_matchup' = extract_matchup(event)
    /\ pc' = "extract_score"
    /\ UNCHANGED <<event, r_live, r_score, r_total, loopVars>>

CallExtractScore ==
    /\ pc = "extract_score"
    /\ r_score' = extract_score(event)
    /\ pc' = "extract_main_total"
    /\ UNCHANGED <<event, r_live, r_matchup, r_total, loopVars>>

CallExtractMainTotal ==
    /\ pc = "extract_main_total"
    /\ r_total' = extract_main_total(event)
    /\ pc' = "extracted"
    /\ UNCHANGED <<event, r_live, r_matchup, r_score, loopVars>>

ExtractNext ==
    \/ CallIsLive
    \/ CallExtractMatchup
    \/ CallExtractScore
    \/ CallExtractMainTotal

SpecExtract == ExtractInit /\ [][ExtractNext]_vars

-----------------------------------------------------------------------------
(* flatten_events applied to one payload                                   *)

EventA == Obj([id |-> JInt(1), status |-> JStr("LIVE")])
EventB == Obj([id |-> JInt(2)])

InnerSeqs ==
    SeqsUpTo({EventA, EventB}, MaxInner)
        \cup {<<JInt(5)>>, <<EventA, JInt(5)>>, <<Null, EventB>>}

PayloadItems ==
    {Dict1("events", JList(evs)) : evs \in InnerSeqs}
    \cup {Dict1("events", JStr("x")), Dict1("events", EventA),
          Dict1("name", JStr("NCAAB")), JStr("x"), JList(<<EventA>>)}

PayloadInputs ==
    {JList(items) : items \in SeqsUpTo(PayloadItems, MaxOuter)}
    \cup {p \in PayloadItems : IsDict(p)}
    \cup {Null, JInt(3), JFloat(15), JBool(TRUE), JStr("events"), EventA}

HarnessIdle ==
    /\ event = Null
    /\ r_live = Unset
    /\ r_matchup = Unset
    /\ r_score = Unset
    /\ r_total = Unset

harnessVars == <<event, r_live, r_matchup, r_score, r_total>>

FlattenInit ==
    /\ pc = "flatten_events"
    /\ payload \in PayloadInputs
    /\ events = <<>>
    /\ live_events = <<>>
    /\ idx = 0
    /\ screen = <<>>
    /\ fetched = FALSE
    /\ slept = 0
    /\ lastCycle = "none"
    /\ HarnessIdle

CallFlattenEvents ==
    /\ pc = "flatten_events"
    /\ events' = flatten_events(payload)
    /\ pc' = "flattened"
    /\ UNCHANGED <<payload, live_events, idx, screen, fetched, slept, lastCycle,
                   harnessVars>>

FlattenNext == CallFlattenEvents

SpecFlatten == FlattenInit /\ [][FlattenNext]_vars

-----------------------------------------------------------------------------
(* main(): the polling loop                                                *)

POLL_SECONDS == 15

GameLines ==
    Obj([description |-> JStr("Game Lines"),
         markets |-> JList(<<Obj([description |-> JStr("Total"),
             outcomes |-> JList(<<
                 Obj([description |-> JStr("Over"), handicap |-> JFloat(1725),
                      price |-> Price(-110)]),
                 Obj([description |-> JStr("Under"), handicap |-> JFloat(1725),
                      price |-> Price(-110)])>>)])>>)])

LiveGame ==
    Obj([status |-> JStr("LIVE"), competitors |-> TwoTeams,
         displayGroups |-> JList(<<GameLines>>)])
LiveBare == Obj([live |-> JBool(TRUE), description |-> JStr("Team X at Team Y")])
Scheduled == Obj([status |-> JStr("scheduled"), competitors |-> TwoTeams])
BadStatus == Obj([status |-> JInt(5)])
BadCompetitors ==
    Obj([live |-> JBool(TRUE), competitors |-> JList(<<JStr("x"), JStr("y")>>)])
BadTotal ==
    Obj([state |-> JStr("in_progress"),
         displayGroups |-> JList(<<Obj([markets |-> JList(<<BadMarket>>)])>>)])

Competition(evs) == Dict1("events", JList(evs))

(* what r.json() can return *)
LoopPayloads ==
    {JList(<<>>),
     JStr("maintenance"),
     JList(<<Competition(<<LiveGame, Scheduled>>), Competition(<<LiveBare>>)>>),
     Competition(<<Scheduled>>),
     Competition(<<LiveBare, LiveGame>>),
     JList(<<Competition(<<Scheduled, BadStatus>>)>>),
     JList(<<Competition(<<LiveGame, BadCompetitors>>)>>),
     Competition(<<BadTotal, LiveGame>>)}

(* fetch_json(url), lines 55-58: the body, raise_for_status, or another error *)
FetchOutcomes ==
    {Ret(p) : p \in LoopPayloads}
    \cup {Raise("HTTPError"), Raise("ConnectionError"), Raise("Timeout"),
          Raise("JSONDecodeError")}

OrNA(res) == IF Truthy(res.v) THEN res.v.s ELSE "N/A"

Header == "Bovada live events"

Init ==
    /\ pc = "fetch"
    /\ LoopIdle
    /\ HarnessIdle

(* line 228 *)
Fetch ==
    /\ pc = "fetch"
    /\ \E res \in FetchOutcomes :
          IF Raised(res)
          THEN /\ pc' = IF res.exc = "HTTPError" THEN "except_http"
                        ELSE "except_other"
               /\ UNCHANGED payload
          ELSE /\ pc' = "flatten"
               /\ payload' = res.v
    /\ fetched' = TRUE
    /\ slept' = 0
    /\ UNCHANGED <<events, live_events, idx, screen, lastCycle, harnessVars>>

(* line 229 *)
Flatten ==
    /\ pc = "flatten"
    /\ events' = flatten_events(payload)
    /\ pc' = "filter"
    /\ UNCHANGED <<payload, live_events, idx, screen, fetched, slept, lastCycle,
                   harnessVars>>

(* lines 231-239 *)
Filter ==
    /\ pc = "filter"
    /\ IF \E i \in 1..Len(events) : Raised(is_live(events[i]))
       THEN /\ pc' = "except_other"
            /\ UNCHANGED <<live_events, idx, screen, lastCycle>>
       ELSE LET live == SelectSeq(events, LAMBDA e : is_live(e).v.b)
            IN /\ live_events' = live
               /\ idx' = 0
               /\ IF Len(live) = 0
                  THEN /\ screen' = <<Header, "No live events found">>
                       /\ pc' = "sleep"
                       /\ lastCycle' = "ok"
                  ELSE /\ screen' = <<Header>>
                       /\ pc' = "render"
                       /\ UNCHANGED lastCycle
    /\ UNCHANGED <<payload, events, fetched, slept, harnessVars>>

(* lines 241-248, one pass of the loop *)
Render ==
    /\ pc = "render"
    /\ LET e == live_events[idx + 1]
           matchup == extract_matchup(e)
           score == extract_score(e)
           total == extract_main_total(e)
       IN IF Raised(score) \/ Raised(total)
          THEN /\ pc' = "except_other"
               /\ UNCHANGED <<idx, screen, lastCycle>>
          ELSE /\ screen' = screen \o <<matchup.v.s,
                                        "  Score: " \o OrNA(score),
                                        "  Total: " \o OrNA(total), "">>
               /\ idx' = idx + 1
               /\ IF idx + 1 = Len(live_events)
                  THEN pc' = "sleep" /\ lastCycle' = "ok"
                  ELSE pc' = "render" /\ UNCHANGED lastCycle
    /\ UNCHANGED <<payload, events, live_events, fetched, slept, harnessVars>>

(* an HTTP-error handler that ends with `continue`: the sleep is skipped *)
ExceptHTTPErrorContinue ==
    /\ pc = "except_http"
    /\ screen' = <<"HTTP error calling endpoint">>
    /\ lastCycle' = "http_error"
    /\ pc' = "fetch"
    /\ UNCHANGED <<payload, events, live_events, idx, fetched, slept, harnessVars>>

(* lines 250-254 *)
ExceptHTTPError ==
    /\ pc = "except_http"
    /\ screen' = <<"HTTP error calling endpoint">>
    /\ lastCycle' = "http_error"
    /\ pc' = "sleep"
    /\ UNCHANGED <<payload, events, live_events, idx, fetched, slept, harnessVars>>

(* a catch-all handler that prints and re-raises: the process ends *)
ExceptExceptionReraises ==
    /\ pc = "except_other"
    /\ screen' = <<"Error">>
    /\ lastCycle' = "error"
    /\ pc' = "crashed"
    /\ UNCHANGED <<payload, events, live_events, idx, fetched, slept, harnessVars>>

(* lines 255-257 *)
ExceptException ==
    /\ pc = "except_other"
    /\ screen' = <<"Error">>
    /\ lastCycle' = "error"
    /\ pc' = "sleep"
    /\ UNCHANGED <<payload, events, live_events, idx, fetched, slept, harnessVars>>

(* line 259, then back to line 226 *)
Sleep ==
    /\ pc = "sleep"
    /\ slept' = slept + POLL_SECONDS
    /\ pc' = "fetch"
    /\ UNCHANGED <<payload, events, live_events, idx, screen, fetched, lastCycle,
                   harnessVars>>

(* KeyboardInterrupt is not an Exception: no handler of the loop catches it *)
Interrupt ==
    /\ pc # "stopped"
    /\ pc' = "stopped"
    /\ UNCHANGED <<loopVars, harnessVars>>

CycleNext ==
    \/ Fetch
    \/ Flatten
    \/ Filter
    \/ Render
    \/ ExceptHTTPError
    \/ ExceptException
    \/ Sleep

Next ==
    \/ CycleNext
    \/ Interrupt

Spec == Init /\ [][Next]_vars

(* the interpreter runs the next statement: a handler that was entered     *)
(* completes, time.sleep returns after POLL_SECONDS, and requests.get      *)
(* returns or raises within its timeout                                    *)
FairSpec ==
    /\ Spec
    /\ WF_vars(ExceptHTTPError)
    /\ WF_vars(ExceptException)
    /\ WF_vars(Sleep)
    /\ WF_vars(Fetch)

-----------------------------------------------------------------------------
(* Properties of the polling loop                                          *)

Failed == pc \in {"except_http", "except_other"}
Stopped == pc = "stopped"
FetchStarted == pc \in {"flatten", "except_http", "except_other"}

(* C2: no failure of a cycle is terminal.  From either handler the only    *)
(* steps are to the sleep or an external interrupt, from the sleep the     *)
(* only steps are to the next fetch or an external interrupt, and only an  *)
(* external interrupt stops the loop; and, the interpreter running on, a   *)
(* failed cycle is followed by the sleep, and the sleep by the start of    *)
(* another fetch, unless an interrupt arrives first.                       *)
C2_NoFailureIsTerminal ==
    /\ [][/\ Failed => pc' \in {"sleep", "stopped"}
          /\ pc = "sleep" => pc' \in {"fetch", "stopped"}
          /\ pc' \notin {"fetch", "flatten", "filter", "render", "except_http",
                         "except_other", "sleep"} => Interrupt]_vars
    /\ Failed ~> (pc = "sleep" \/ Stopped)
    /\ (pc = "sleep" /\ lastCycle \in {"http_error", "error"})
          ~> ((FetchStarted /\ slept = 0) \/ Stopped)

(* a cycle failed with an HTTP-status error, the loop slept and fetched    *)
(* again, and the new cycle failed with another exception                  *)
C2_Witness ==
    /\ pc = "except_other"
    /\ lastCycle = "http_error"
    /\ slept = 0
    /\ screen = <<"HTTP error calling endpoint">>

(* C10: between two consecutive fetches there is exactly one completed     *)
(* sleep of the poll interval, however the earlier cycle ended: when the   *)
(* loop is about to fetch again exactly POLL_SECONDS of sleep have         *)
(* completed since the previous fetch started, and no sleep completes      *)
(* while a cycle is still running.                                         *)
C10_OneSleepBetweenFetches ==
    /\ (pc = "fetch" /\ fetched) => slept = POLL_SECONDS
    /\ pc \in {"flatten", "filter", "render", "except_http", "except_other",
               "sleep"} => slept = 0

(* the loop is about to fetch again after a cycle that failed *)
C10_Witness ==
    /\ pc = "fetch"
    /\ fetched
    /\ slept = POLL_SECONDS
    /\ lastCycle = "error"

-----------------------------------------------------------------------------
(* Properties of flatten_events                                            *)

(* the events contributed by one element of a sequence payload *)
RefContribution(item) ==
    IF IsDict(item) /\ "events" \in DOMAIN item.m /\ IsList(item.m["events"])
    THEN SelectSeq(item.m["events"].items, IsDict)
    ELSE <<>>

(* the concatenation of the contributions of the first n elements *)
RECURSIVE RefConcat(_, _)
RefConcat(items, n) ==
    IF n = 0 THEN <<>> ELSE RefConcat(items, n - 1) \o RefContribution(items[n])

RefFlatten(p) ==
    CASE IsList(p) -> RefConcat(p.items, Len(p.items))
      [] IsDict(p) -> RefContribution(p)
      [] OTHER -> <<>>

(* C3: flatten_events equals the reference flattener for every payload:   *)
(* a sequence payload gives the concatenation, in outer then inner order,  *)
(* of the mapping-typed elements of the `events` sequence of every mapping *)
(* element that has one; a mapping payload gives the mapping-typed         *)
(* elements of its `events` sequence; any other payload gives the empty    *)
(* sequence.                                                               *)
C3_FlattenMatchesReference ==
    pc = "flattened" =>
        /\ events = RefFlatten(payload)
        /\ (~IsList(payload) /\ ~IsDict(payload)) => events = <<>>
        /\ \A i \in 1..Len(events) : IsDict(events[i])

(* two competitions are concatenated in order and a non-mapping is dropped *)
C3_Witness ==
    /\ pc = "flattened"
    /\ payload = JList(<<Dict1("events", JList(<<EventA, JInt(5)>>)),
                         Dict1("events", JList(<<EventB, EventA>>))>>)
    /\ events = <<EventA, EventB, EventA>>

-----------------------------------------------------------------------------
(* Properties of the extractors                                            *)

Field(e, key) == IF key \in DOMAIN e.m THEN e.m[key] ELSE Null

(* C1: on every event that is a mapping of string keys to arbitrary JSON   *)
(* values, is_live, extract_matchup, extract_score and extract_main_total  *)
(* return a result and never raise.                                        *)
C1_ExtractorsNeverRaise ==
    /\ ~Raised(r_live)
    /\ ~Raised(r_matchup)
    /\ ~Raised(r_score)
    /\ ~Raised(r_total)

LiveFields == {"liveGame", "liveStatus", "liveData"}

HasLiveMapping(e) == \E f \in LiveFields : f \in DOMAIN e.m /\ IsDict(e.m[f])

HasLiveText(e) ==
    \E f \in {"status", "state"} :
        /\ IsStr(Field(e, f))
        /\ \/ Contains("LIVE", upper(Field(e, f).s))
           \/ Contains("IN_PROGRESS", upper(Field(e, f).s))

(* C4: whenever is_live returns, it returns true for every event in which  *)
(* one of liveGame, liveStatus, liveData is present and is a mapping,      *)
(* whatever that mapping holds (the empty mapping included) and whatever   *)
(* the other two fields are; and it returns false when there is no         *)
(* status/state text signal, `live` is not true and no nested live mapping *)
(* is present.                                                             *)
C4_LiveMappingMeansLive ==
    (pc # "is_live" /\ ~Raised(r_live)) =>
        /\ HasLiveMapping(event) => r_live = Ret(JBool(TRUE))
        /\ (/\ ~HasLiveText(event)
            /\ Field(event, "live") # JBool(TRUE)
            /\ ~HasLiveMapping(event)) => r_live = Ret(JBool(FALSE))

(* the value a competitor entry yields: `score`, or else `points` *)
EntryScore(c) ==
    IF ~IsDict(c) THEN Null
    ELSE IF ~IsNone(Field(c, "score")) THEN Field(c, "score")
    ELSE Field(c, "points")

NoLiveScore(e) ==
    LET live == PyOr(PyOr(Get(e, "liveGame"), Get(e, "liveData")),
                     Get(e, "liveStatus"))
    IN ~IsDict(live) \/ IsNone(live_score(live))

(* C5: when no live-nested score is found, extract_score returns a score   *)
(* string when `competitors` is a sequence of at least two mapping entries *)
(* and every entry yields a non-null value from `score` or else `points`   *)
(* (a score of 0 included), the string being "{v0}-{v1}" for the entries   *)
(* at index 0 and 1; and the result is absence when `competitors` is not   *)
(* such a sequence or some mapping entry yields no value.                  *)
C5_CompetitorScoreFallback ==
    (pc \in {"extract_main_total", "extracted"} /\ NoLiveScore(event)) =>
        LET cs == Field(event, "competitors")
            two == IsList(cs) /\ Len(cs.items) >= 2
        IN /\ (/\ two
               /\ \A i \in 1..Len(cs.items) :
                     IsDict(cs.items[i]) /\ ~IsNone(EntryScore(cs.items[i])))
              => r_score = Ret(JStr(PyStr(EntryScore(cs.items[1])) \o "-"
                                      \o PyStr(EntryScore(cs.items[2]))))
           /\ (\/ ~two
               \/ \E i \in 1..Len(cs.items) :
                     IsDict(cs.items[i]) /\ IsNone(EntryScore(cs.items[i])))
              => r_score = Ret(Null)

NonBlankStr(v) == IsStr(v) /\ strip(v.s) # ""

TwoNamed(e) ==
    LET cs == Field(e, "competitors")
    IN /\ IsList(cs)
       /\ Len(cs.items) >= 2
       /\ \A i \in 1..2 : IsDict(cs.items[i]) /\ Truthy(Field(cs.items[i], "name"))

(* C8: extract_matchup returns "{name0} vs {name1}" when the first two     *)
(* competitors are mappings with a non-empty name; else the description    *)
(* when it is a string that is non-empty after trimming; else the          *)
(* shortDescription when it is a string that is non-empty after trimming   *)
(* (also when the description is blank); else "Unknown matchup".           *)
C8_MatchupPriority ==
    pc \notin {"is_live", "extract_matchup"} =>
        r_matchup =
            IF TwoNamed(event)
            THEN Ret(JStr(PyStr(Field(event, "competitors").items[1].m["name"])
                          \o " vs "
                          \o PyStr(Field(event, "competitors").items[2].m["name"])))
            ELSE IF NonBlankStr(Field(event, "description"))
            THEN Ret(JStr(strip(Field(event, "description").s)))
            ELSE IF NonBlankStr(Field(event, "shortDescription"))
            THEN Ret(JStr(strip(Field(event, "shortDescription").s)))
            ELSE Ret(JStr("Unknown matchup"))

-----------------------------------------------------------------------------
(* Properties of extract_main_total                                        *)

Groups(e) == Field(e, "displayGroups").items

IsGameLines(g) ==
    IsDict(g) /\ "description" \in DOMAIN g.m /\ g.m["description"] = JStr("Game Lines")

NotGameLines(g) == ~IsGameLines(g)

(* the groups in scan order: a stable partition, "Game Lines" groups first *)
ScanOrder(e) == SelectSeq(Groups(e), IsGameLines) \o SelectSeq(Groups(e), NotGameLines)

MarketsOf(g) ==
    IF IsDict(g) /\ IsList(Field(g, "markets")) THEN Field(g, "markets").items
    ELSE <<>>

(* the markets of the first n groups of gs, group after group *)
RECURSIVE MarketsUpTo(_, _)
MarketsUpTo(gs, n) ==
    IF n = 0 THEN <<>> ELSE MarketsUpTo(gs, n - 1) \o MarketsOf(gs[n])

(* every market in the order the scan meets them *)
MarketsInScanOrder(e) == MarketsUpTo(ScanOrder(e), Len(ScanOrder(e)))

IsTotalMarket(m) ==
    /\ IsDict(m)
    /\ IsStr(Field(m, "description"))
    /\ lower(strip(Field(m, "description").s)) = "total"

Yields(m) == market_body(m) # Continue

TotalDone == pc = "extracted" /\ IsList(Field(event, "displayGroups"))

(* C6 as stated: whenever extract_main_total returns, the result is that   *)
(* of the FIRST market, in scan order, whose description trimmed and       *)
(* lower-cased equals "total", taken alone: absence if that market has     *)
(* fewer than two outcomes or resolves no line; later markets play no part.*)
C6_OnlyFirstTotalMarket ==
    (TotalDone /\ ~Raised(r_total)) =>
        LET ms == MarketsInScanOrder(event)
            totals == {i \in 1..Len(ms) : IsTotalMarket(ms[i])}
        IN totals # {} =>
              LET first == CHOOSE i \in totals : \A j \in totals : i <= j
              IN r_total = IF Yields(ms[first]) THEN market_body(ms[first])
                           ELSE Ret(Null)

(* C6 amended: a "total" market with fewer than two outcomes or with no    *)
(* line is passed over and the scan goes on; the result is that of the     *)
(* first market, in scan order, that yields (a formatted total, or an      *)
(* error raised while reading it), taken alone; no market after it plays   *)
(* any part; the result is absence when no market yields.                  *)
C6_FirstYieldingTotalMarket ==
    TotalDone =>
        LET ms == MarketsInScanOrder(event)
            yielding == {i \in 1..Len(ms) : Yields(ms[i])}
        IN IF yielding = {} THEN r_total = Ret(Null)
           ELSE LET first == CHOOSE i \in yielding : \A j \in yielding : i <= j
                IN r_total = market_body(ms[first])

(* a "total" market with too few outcomes or no line comes first, a later  *)
(* "total" market gives the result, and another one after it is ignored    *)
C6_Witness ==
    /\ TotalDone
    /\ LET ms == MarketsInScanOrder(event)
       IN \E i, j, l \in 1..Len(ms) :
             /\ i < j
             /\ j < l
             /\ IsTotalMarket(ms[i])
             /\ ~Yields(ms[i])
             /\ \A h \in 1..(j - 1) : ~Yields(ms[h])
             /\ Yields(ms[j])
             /\ Yields(ms[l])
             /\ market_body(ms[l]) # market_body(ms[j])
             /\ r_total = market_body(ms[j])
             /\ r_total.r = "ret"

HoldsUsableTotal(g) ==
    \E i \in 1..Len(MarketsOf(g)) : market_body(MarketsOf(g)[i]).r = "ret"

(* C7: the groups are scanned in the order of a stable partition, every    *)
(* "Game Lines" group before every other group and input order kept within*)
(* each class; so the first "Game Lines" group that holds a usable "Total" *)
(* market, no "Game Lines" group before it yielding anything, gives the    *)
(* result even when an earlier group of another name holds one too.        *)
C7_GameLinesGroupsFirst ==
    TotalDone =>
        LET gs == Groups(event)
        IN /\ sorted(gs) = ScanOrder(event)
           /\ \A j \in 1..Len(gs) :
                 (/\ IsGameLines(gs[j])
                  /\ HoldsUsableTotal(gs[j])
                  /\ \A h \in 1..(j - 1) :
                        IsGameLines(gs[h]) => group_body(gs[h]) = Continue)
                 => r_total = group_body(gs[j])

(* a "Game Lines" group placed second gives the result although the first  *)
(* group holds a usable "Total" market with another line                   *)
C7_Witness ==
    /\ TotalDone
    /\ Len(Groups(event)) = 2
    /\ NotGameLines(Groups(event)[1])
    /\ IsGameLines(Groups(event)[2])
    /\ HoldsUsableTotal(Groups(event)[1])
    /\ HoldsUsableTotal(Groups(event)[2])
    /\ group_body(Groups(event)[1]) # group_body(Groups(event)[2])
    /\ r_total = group_body(Groups(event)[2])
    /\ r_total.r = "ret"


(* the line an outcome carries: `handicap`, else `points`, else the nested *)
(* `price.handicap`, an empty or zero value counting as not there          *)
CarriedLine(o) ==
    IF Truthy(Field(o, "handicap")) THEN Field(o, "handicap")
    ELSE IF Truthy(Field(o, "points")) THEN Field(o, "points")
    ELSE IF IsDict(Field(o, "price")) THEN Field(Field(o, "price"), "handicap")
    ELSE Null

American(o) ==
    IF IsDict(Field(o, "price")) THEN Field(Field(o, "price"), "american")
    ELSE Null

OutcomeText(o) ==
    IF IsStr(Field(o, "description")) THEN lower(strip(Field(o, "description").s))
    ELSE ""

Last(S) == CHOOSE i \in S : \A j \in S : j <= i

(* a "total" market with at least two outcomes whose outcome descriptions  *)
(* are text or missing                                                     *)
ReadableTotalMarket(m) ==
    /\ IsTotalMarket(m)
    /\ IsList(Field(m, "outcomes"))
    /\ Len(Field(m, "outcomes").items) >= 2
    /\ \A i \in 1..Len(Field(m, "outcomes").items) :
          LET o == Field(m, "outcomes").items[i]
          IN IsDict(o) => (IsStr(Field(o, "description"))
                           \/ ~Truthy(Field(o, "description")))

ExampleTotal ==
    Obj([displayGroups |-> JList(<<Obj([description |-> JStr("Game Lines"),
        markets |-> JList(<<Obj([description |-> JStr("Total"),
            outcomes |-> JList(<<
                Obj([description |-> JStr("Over"), handicap |-> JFloat(1725),
                     price |-> Price(-110)]),
                Obj([description |-> JStr("Under"), handicap |-> JFloat(1725),
                     price |-> Price(-110)])>>)])>>)])>>)])

(* C9: when the first market of the scan is a "total" market with at least *)
(* two outcomes, the line is that of the LAST outcome carrying one, else   *)
(* the market's own `handicap` or `points`; the over and under prices are  *)
(* the `price.american` of the last outcome whose description contains     *)
(* "over", respectively "under"; a known line gives                        *)
(* "O/U {line} (O {over}, U {under})" when both prices are known and       *)
(* "O/U {line}" otherwise; Over/Under outcomes with handicap 172.5 and     *)
(* american -110 give "O/U 172.5 (O -110, U -110)".                        *)
C9_LastLineAndPrices ==
    TotalDone =>
        LET ms == MarketsInScanOrder(event)
        IN /\ (Len(ms) >= 1 /\ ReadableTotalMarket(ms[1])) =>
                 LET os == Field(ms[1], "outcomes").items
                     ds == {i \in 1..Len(os) : IsDict(os[i])}
                     lined == {i \in ds : ~IsNone(CarriedLine(os[i]))}
                     overs == {i \in ds : Contains("over", OutcomeText(os[i]))}
                     unders == {i \in ds \ overs :
                                   Contains("under", OutcomeText(os[i]))}
                     line == IF lined # {} THEN CarriedLine(os[Last(lined)])
                             ELSE IF Truthy(Field(ms[1], "handicap"))
                             THEN Field(ms[1], "handicap")
                             ELSE Field(ms[1], "points")
                     over == IF overs = {} THEN Null
                             ELSE American(os[Last(overs)])
                     under == IF unders = {} THEN Null
                              ELSE American(os[Last(unders)])
                 IN ~IsNone(line) =>
                       r_total =
                          IF ~IsNone(over) /\ ~IsNone(under)
                          THEN Ret(JStr("O/U " \o PyStr(line) \o " (O "
                                        \o PyStr(over) \o ", U " \o PyStr(under)
                                        \o ")"))
                          ELSE Ret(JStr("O/U " \o PyStr(line)))
           /\ event = ExampleTotal =>
                 r_total = Ret(JStr("O/U 172.5 (O -110, U -110)"))

(* two outcomes carry different lines and the later one is reported, with  *)
(* both prices                                                             *)
C9_Witness ==
    /\ TotalDone
    /\ Len(MarketsInScanOrder(event)) = 1
    /\ ReadableTotalMarket(MarketsInScanOrder(event)[1])
    /\ LET os == Field(MarketsInScanOrder(event)[1], "outcomes").items
       IN /\ Len(os) = 2
          /\ IsDict(os[1])
          /\ IsDict(os[2])
          /\ CarriedLine(os[1]) = JFloat(1725)
          /\ CarriedLine(os[2]) = JInt(170)
    /\ r_total = Ret(JStr("O/U 170 (O 105, U -110)"))

====
